---- MODULE Spec2Model ----
(***************************************************************************)
(* Cache-aware incremental collection of src/app.py: get_cached_data,      *)
(* save_to_md, fetch_json, get_companies, get_accounts, fetch_statistics   *)
(* and run_async_collection.                                               *)
(*                                                                         *)
(* Strings whose characters matter (codes, periods, value texts) are       *)
(* sequences of one-character strings, so that str.strip, str.replace and  *)
(* pd.to_numeric are computed and not assumed.  A pandas DataFrame and the *)
(* MotherDuck table are bags of rows (row order is not modelled); the      *)
(* Python lists tasks and new_results are sequences.  The column 수집일시  *)
(* (server timestamp) is not modelled.  Row fields: sector = 구분,         *)
(* financeCd = 회사코드, financeNm = 회사명, accountCd = 계정코드,         *)
(* accountNm = 계정명, baseMm = 기준년월, unit = 단위, value = 값.         *)
(***************************************************************************)
EXTENDS Integers, Sequences, FiniteSets, Bags, TLC

VARIABLES
    MD_TOKEN,        \* app.py:42  whether a MotherDuck token is configured
    store,           \* the table insurance_stats: a bag of rows
    TARGET_MONTH,    \* app.py:940 the period text the operator typed
    pc,              \* position of run_async_collection
    cached_df,       \* app.py:563
    catalogs,        \* app.py:575-580 the four catalog calls of the gather
    tasks,           \* app.py:586,606 the work list: <<company, account>> records
    taskState,       \* per task: "pending" | "holding" | "done"
    semaphore,       \* app.py:587 free admission slots
    new_results,     \* app.py:621
    completed_count, \* app.py:623
    results,         \* the value run_async_collection returns
    runs,            \* number of runs started
    storeAtStart,    \* history: the table when the current run started
    readOk,          \* history: get_cached_data of this run reached the table
    saveOk,          \* history: save_to_md of this run got a connection
    exc,             \* history: the function whose exception ended the run
    prev,            \* history: the run before the current one, until BuildTasks
    repeat,          \* history: this run repeats the one before (period, catalogs)
    prevClean,       \* history: the run before ended with a row of every task, saved
    vpc, vItem, vRaw, vStored,  \* the value pipeline of one fetched item
    remote,          \* the remote's answer to the request of each task, when fixed
    other            \* a second run_async_collection (another session), same table

vars == <<MD_TOKEN, store, TARGET_MONTH, pc, cached_df, catalogs, tasks, taskState,
          semaphore, new_results, completed_count, results, runs,
          storeAtStart, readOk, saveOk, exc, prev, repeat, prevClean, vpc, vItem, vRaw,
          vStored, remote, other>>

runVars == <<MD_TOKEN, store, TARGET_MONTH, pc, cached_df, catalogs, tasks, taskState,
             semaphore, new_results, completed_count, results, runs,
             storeAtStart, readOk, saveOk, exc, prev, repeat, prevClean>>

valueVars == <<vpc, vItem, vRaw, vStored>>

sessionVars == <<remote, other>>

----------------------------------------------------------------------------
(* Bounds *)

\* The source sets MAX_CONCURRENT_REQUESTS = 20 (app.py:37); the cap is scaled
\* down so that the work lists of the model exceed it.
MAX_CONCURRENT_REQUESTS == 2

\* Runs of run_async_collection in one behaviour.
MaxRuns == 2

\* Longest value text of a response item in the value pipeline.
MaxValLen == 2

----------------------------------------------------------------------------
(* Text *)

RECURSIVE lstrip(_)
lstrip(s) == IF s # <<>> /\ Head(s) = " " THEN lstrip(Tail(s)) ELSE s

RECURSIVE rstrip(_)
rstrip(s) == IF s # <<>> /\ s[Len(s)] = " " THEN rstrip(SubSeq(s, 1, Len(s) - 1)) ELSE s

\* str.strip()
strip(s) == rstrip(lstrip(s))

\* str.replace(',', '')
IsNotComma(c) == c # ","
replace_comma(s) == SelectSeq(s, IsNotComma)

DigitChars == <<"0", "1", "2", "3", "4", "5", "6", "7", "8", "9">>

IsDigit(c) == \E i \in 1..10 : DigitChars[i] = c

DigitVal(c) == (CHOOSE i \in 1..10 : DigitChars[i] = c) - 1

RECURSIVE ParseDigits(_)
ParseDigits(s) ==
    IF s = <<>> THEN 0
    ELSE 10 * ParseDigits(SubSeq(s, 1, Len(s) - 1)) + DigitVal(s[Len(s)])

RECURSIVE str_int(_)
str_int(n) == IF n < 10 THEN <<DigitChars[n + 1]>>
              ELSE str_int(n \div 10) \o <<DigitChars[(n % 10) + 1]>>

----------------------------------------------------------------------------
(* JSON values of the field 값: null, a number, a text *)

JNull == [k |-> "null", n |-> 0, s |-> <<>>]
JNum(n) == [k |-> "num", n |-> n, s |-> <<>>]
JStr(s) == [k |-> "str", n |-> 0, s |-> s]

\* Python truthiness of a JSON value
truthy(v) == (v.k = "num" /\ v.n # 0) \/ (v.k = "str" /\ v.s # <<>>)

\* Python's  x or y
py_or(x, y) == IF truthy(x) THEN x ELSE y

\* dict.get(key): None when the key is absent
item_get(item, key) == IF key \in item.keys THEN item[key] ELSE JNull

\* str(v) of astype(str)
astype_str(v) == IF v.k = "num" THEN str_int(v.n)
                 ELSE IF v.k = "str" THEN v.s
                 ELSE <<"N", "o", "n", "e">>

\* pd.to_numeric(text, errors='coerce'): NaN (stored as NULL) when not a number
to_numeric(s) == IF s # <<>> /\ \A i \in 1..Len(s) : IsDigit(s[i])
                 THEN JNum(ParseDigits(s)) ELSE JNull

----------------------------------------------------------------------------
(* The remote API: HTTP responses and the JSON bodies the code looks into *)

\* A parsed JSON body, by the shape the code tests:
\*   "falsy"      a body that is falsy in Python (null, {}, [])
\*   "noresult"   an object (or array) without the key result
\*   "resultnull" {"result": null}
\*   "nolist"     {"result": {...}} without the key list
\*   "listnull"   {"result": {"list": null}}
\*   "list"       {"result": {"list": [...]}}
Body(t, l) == [t |-> t, list |-> l]

None == Body("None", <<>>)

\* An HTTP exchange: session.get raised (transport error, timeout), or a status
\* and a text that json.loads accepts or not.
Http(raised, status, json_ok, body) ==
    [raised |-> raised, status |-> status, json_ok |-> json_ok, body |-> body]

\* app.py:469-481
fetch_json(resp) ==
    IF resp.raised THEN None
    ELSE IF resp.status = 200
         THEN IF resp.json_ok THEN resp.body ELSE None
         ELSE None

\* data and 'result' in data and 'list' in data['result']  (app.py:490, 506, 535):
\* "ok" with the guard's value, or "raise" ('list' in None is a TypeError)
list_guard(data) ==
    IF data.t \in {"None", "falsy", "noresult"} THEN [raised |-> FALSE, val |-> FALSE]
    ELSE IF data.t = "resultnull" THEN [raised |-> TRUE, val |-> FALSE]
    ELSE IF data.t = "nolist" THEN [raised |-> FALSE, val |-> FALSE]
    ELSE [raised |-> FALSE, val |-> TRUE]

\* What a coroutine ends with: a value, None, or an exception
Returned(v) == [raised |-> FALSE, absent |-> FALSE, val |-> v]
ReturnedNone == [raised |-> FALSE, absent |-> TRUE, val |-> <<>>]
Raised == [raised |-> TRUE, absent |-> FALSE, val |-> <<>>]

\* app.py:483-497; an item is [keys, finance_cd, finance_nm]
get_companies(resp, part_div) ==
    LET data == fetch_json(resp)
        g == list_guard(data)
    IN  IF g.raised THEN Raised
        ELSE IF ~g.val THEN Returned(<<>>)
        ELSE IF data.t = "listnull" THEN Raised
        ELSE IF \E i \in 1..Len(data.list) :
                    ~({"finance_cd", "finance_nm"} \subseteq data.list[i].keys)
             THEN Raised
        ELSE Returned([i \in 1..Len(data.list) |->
                          [financeCd |-> data.list[i].finance_cd,
                           financeNm |-> data.list[i].finance_nm,
                           partDiv |-> part_div]])

\* app.py:499-513; an item is [keys, account_cd, account_nm]
get_accounts(resp, list_no) ==
    LET data == fetch_json(resp)
        g == list_guard(data)
    IN  IF g.raised THEN Raised
        ELSE IF ~g.val THEN Returned(<<>>)
        ELSE IF data.t = "listnull" THEN Raised
        ELSE IF \E i \in 1..Len(data.list) :
                    ~({"account_cd", "account_nm"} \subseteq data.list[i].keys)
             THEN Raised
        ELSE Returned([i \in 1..Len(data.list) |->
                          [accountCd |-> data.list[i].account_cd,
                           accountNm |-> data.list[i].account_nm,
                           listNo |-> list_no]])

\* app.py:540
raw_value(item) ==
    py_or(py_or(py_or(item_get(item, "a"), item_get(item, "won")),
                item_get(item, "column_value")), JNum(0))

\* app.py:535-552, the part of fetch_statistics after the network call;
\* val is the row, or None
fetch_statistics(resp, company, account, target_month) ==
    LET data == fetch_json(resp)
        g == list_guard(data)
    IN  IF g.raised THEN Raised
        ELSE IF ~g.val THEN ReturnedNone
        ELSE IF data.t = "listnull" \/ data.list = <<>> THEN ReturnedNone
        ELSE LET item == data.list[1]
             IN  Returned([sector |-> IF company.partDiv = "H" THEN "life" ELSE "nonlife",
                           financeCd |-> company.financeCd,
                           financeNm |-> company.financeNm,
                           accountCd |-> account.accountCd,
                           accountNm |-> account.accountNm,
                           baseMm |-> target_month,
                           unit |-> IF "unit_name" \in item.keys THEN item.unit_name ELSE "",
                           value |-> raw_value(item)])

----------------------------------------------------------------------------
(* The inputs of the model: what the operator types and the remote answers *)

\* Periods: the default of app.py:33 ("p" stands for 202509), the same typed
\* with a trailing blank, and another period.
P == <<"p">>
Ps == <<"p", " ">>
Q == <<"q">>
Periods == {P, Ps, Q}

CoItem(cd, nm) == [keys |-> {"finance_cd", "finance_nm"}, finance_cd |-> cd, finance_nm |-> nm]
AccItem(cd, nm) == [keys |-> {"account_cd", "account_nm"}, account_cd |-> cd, account_nm |-> nm]

\* Catalog lists the remote may return; codes may carry incidental blanks.
LifeCompanyLists == {<<>>, <<CoItem(<<"A">>, "Alpha")>>,
                     <<CoItem(<<"A", " ">>, "Alpha"), CoItem(<<"A">>, "Alpha")>>}
NonLifeCompanyLists == {<<>>, <<CoItem(<<"B">>, "Beta")>>}
LifeAccountLists == {<<>>, <<AccItem(<<"X">>, "capital")>>}
NonLifeAccountLists == {<<>>, <<AccItem(<<" ", "Y">>, "required")>>}

\* Items without a key the code indexes
BadCompanyItem == [keys |-> {"finance_nm"}, finance_cd |-> <<>>, finance_nm |-> "Alpha"]
BadAccountItem == [keys |-> {"account_cd"}, account_cd |-> <<"X">>, account_nm |-> ""]

StatItem(keys, a, won, cv, unit) ==
    [keys |-> keys, a |-> a, won |-> won, column_value |-> cv, unit_name |-> unit]

\* Statistic items of the collection runs: a number with a thousands
\* separator, and a text that is no number.
ItemNumber == StatItem({"column_value", "unit_name"}, JNull, JNull, JStr(<<"1", ",", "2">>), "KRW")
ItemText == StatItem({"a"}, JStr(<<"x">>), JNull, JNull, "")
StatLists == {<<>>, <<ItemNumber>>, <<ItemText>>, <<ItemNumber, ItemText>>}

\* Bodies without a usable result.list
ShapeBodies == {Body(t, <<>>) : t \in {"falsy", "noresult", "resultnull", "nolist", "listnull"}}

\* Exchanges that end without a parsed body: transport error or timeout,
\* non-200 status, text that is no JSON
HttpFailures == {Http(TRUE, 0, FALSE, None), Http(FALSE, 500, TRUE, Body("list", <<>>)),
                 Http(FALSE, 200, FALSE, None)}

HttpOk(bodies) == {Http(FALSE, 200, TRUE, b) : b \in bodies}

ListBodies(lists) == {Body("list", l) : l \in lists}

\* The exchanges of the four catalog calls, in the order of app.py:575-578
CatalogResponses(i) ==
    HttpFailures \cup HttpOk(ShapeBodies) \cup
    HttpOk(ListBodies(
        IF i = 1 THEN LifeCompanyLists \cup {<<BadCompanyItem>>}
        ELSE IF i = 2 THEN NonLifeCompanyLists \cup {<<BadCompanyItem>>}
        ELSE IF i = 3 THEN LifeAccountLists \cup {<<BadAccountItem>>}
        ELSE NonLifeAccountLists \cup {<<BadAccountItem>>}))

StatResponses == HttpFailures \cup HttpOk(ShapeBodies) \cup HttpOk(ListBodies(StatLists))

\* Values of a response item's field in the value pipeline
RECURSIVE Texts(_)
Texts(n) == IF n = 0 THEN {<<>>}
            ELSE LET shorter == Texts(n - 1)
                 IN  shorter \cup {Append(s, c) : s \in shorter, c \in {"1", ",", "x"}}

FieldValues == {JNum(0), JNum(7)} \cup {JStr(s) : s \in Texts(MaxValLen)}

\* Every item over the three value fields (an absent field holds JNull)
ValueItems ==
    {StatItem(ks, IF "a" \in ks THEN a ELSE JNull, IF "won" \in ks THEN w ELSE JNull,
              IF "column_value" \in ks THEN c ELSE JNull, "") :
        ks \in SUBSET {"a", "won", "column_value"},
        a \in FieldValues, w \in FieldValues, c \in FieldValues}

----------------------------------------------------------------------------
(* The cache store *)

RECURSIVE SeqToBag(_)
SeqToBag(s) == IF s = <<>> THEN EmptyBag
               ELSE SeqToBag(Tail(s)) (+) SetToBag({Head(s)})

\* app.py:47-74: a connection, when a token is configured and connecting succeeds
get_md_connection(connects) == MD_TOKEN /\ connects

\* SELECT * FROM insurance_stats WHERE 기준년월 = ?  (app.py:81)
select_period(table, target_month) ==
    LET hit == {r \in DOMAIN table : r.baseMm = target_month}
    IN  [r \in hit |-> table[r]]

\* Faulty variant: the rows are returned whether or not a connection was made
get_cached_data_any(target_month, connects) == select_period(store, target_month)

\* app.py:76-87; connects = FALSE covers every way the store fails the call
\* (no connection, app.py:72-74, or a failing query, app.py:85-87): the code
\* catches the exception and returns an empty frame
get_cached_data(target_month, connects) ==
    IF get_md_connection(connects) THEN select_period(store, target_month) ELSE EmptyBag

\* Faulty variant: the row is inserted as fetched, codes and period not stripped
df_to_save_raw(row) == row

\* app.py:97-99: the columns of a row as inserted
df_to_save(row) ==
    [row EXCEPT !.financeCd = strip(row.financeCd),
                !.accountCd = strip(row.accountCd),
                !.baseMm = strip(row.baseMm)]

\* Faulty variant: a row is inserted only when the table holds no row of its
\* (company code, account code, period)
save_to_md_dedup(df, connects) ==
    LET rows == [i \in 1..Len(df) |-> df_to_save(df[i])]
        held(r) == \E t \in DOMAIN store : /\ t.financeCd = r.financeCd
                                           /\ t.accountCd = r.accountCd
                                           /\ t.baseMm = r.baseMm
        fresh(r) == ~held(r)
    IN  IF df = <<>> \/ ~get_md_connection(connects) THEN store
        ELSE store (+) SeqToBag(SelectSeq(rows, fresh))

\* Faulty variant: the frame replaces the rows of the table
save_to_md_replace(df, connects) ==
    IF df = <<>> THEN store
    ELSE IF get_md_connection(connects)
         THEN SeqToBag([i \in 1..Len(df) |-> df_to_save(df[i])])
         ELSE store

\* Faulty variant: only the first row of the frame is inserted
save_to_md_first(df, connects) ==
    IF df = <<>> THEN store
    ELSE IF get_md_connection(connects)
         THEN store (+) SetToBag({df_to_save(df[1])})
         ELSE store

\* app.py:89-108: the table after save_to_md(df), df a sequence of rows
save_to_md(df, connects) ==
    IF df = <<>> THEN store
    ELSE IF get_md_connection(connects)
         THEN store (+) SeqToBag([i \in 1..Len(df) |-> df_to_save(df[i])])
         ELSE store

----------------------------------------------------------------------------
(* run_async_collection *)

\* app.py:591-597
existing_keys(cached) ==
    {<<strip(r.financeCd), strip(r.accountCd)>> : r \in DOMAIN cached}

\* Faulty variant: the candidate key compared without strip
task_key_raw(comp, acc) == <<comp.financeCd, acc.accountCd>>

\* the key build_tasks compares (app.py:603-604)
task_key(comp, acc) == <<strip(comp.financeCd), strip(acc.accountCd)>>

\* app.py:599-606: the tasks one call of build_tasks appends, in loop order
build_tasks(companies, accounts, keys) ==
    LET n == Len(accounts)
        all == [k \in 1..(Len(companies) * n) |->
                   [company |-> companies[((k - 1) \div n) + 1],
                    account |-> accounts[((k - 1) % n) + 1]]]
        missing(t) == task_key(t.company, t.account) \notin keys
    IN  SelectSeq(all, missing)

\* Faulty variant: the second call pairs the life companies with the non-life accounts
work_list_cross(cats, cached) ==
    build_tasks(cats[1].val, cats[3].val, existing_keys(cached))
        \o build_tasks(cats[1].val, cats[4].val, existing_keys(cached))

\* app.py:608-609
work_list(cats, cached) ==
    build_tasks(cats[1].val, cats[3].val, existing_keys(cached))
        \o build_tasks(cats[2].val, cats[4].val, existing_keys(cached))

\* app.py:639
normalize(row) == [row EXCEPT !.value = to_numeric(replace_comma(astype_str(row.value)))]

new_df(rows) == [i \in 1..Len(rows) |-> normalize(rows[i])]

\* Faulty variant: only the row of the task that ended last is kept
merge_last(cached, rows) ==
    IF rows # <<>> THEN cached (+) SetToBag({rows[Len(rows)]}) ELSE cached

\* Faulty variant: the cached rows are left out when new rows came
merge_new_only(cached, rows) == IF rows # <<>> THEN SeqToBag(rows) ELSE cached

\* app.py:635-650: the returned rows
merge(cached, rows) ==
    IF rows # <<>>
    THEN IF cached # EmptyBag
         THEN cached (+) SeqToBag(new_df(rows))
         ELSE SeqToBag(rows)
    ELSE cached

NoCatalog == [done |-> FALSE, val |-> <<>>]
NoPrev == [exists |-> FALSE, period |-> <<>>, catalogs |-> <<>>, clean |-> FALSE]

\* The second run before it starts
NoOther == [pc |-> "idle", target_month |-> <<>>, cached_df |-> EmptyBag, tasks |-> <<>>,
            next |-> 1, new_results |-> <<>>, results |-> EmptyBag,
            readOk |-> FALSE, saveOk |-> FALSE]

CatalogLists == [i \in 1..4 |-> catalogs[i].val]

Holders == {i \in DOMAIN tasks : taskState[i] = "holding"}

\* Faulty variant: a cache hit returns no row
cache_hit_empty(cached) == EmptyBag

\* app.py:613-616: the rows returned when there is nothing to fetch
cache_hit(cached) == cached

\* Faulty variant: the rows fetched before the exception are returned
except_return_partial(rows) == SeqToBag(rows)

\* app.py:655-658: the value returned when an exception ends the run; the
\* rows fetched so far (rows) are dropped
except_return(rows) == EmptyBag

InitRun ==
    /\ MD_TOKEN \in BOOLEAN
    /\ store = EmptyBag
    /\ TARGET_MONTH = P
    /\ pc = "idle"
    /\ cached_df = EmptyBag
    /\ catalogs = [i \in 1..4 |-> NoCatalog]
    /\ tasks = <<>>
    /\ taskState = <<>>
    /\ semaphore = MAX_CONCURRENT_REQUESTS
    /\ new_results = <<>>
    /\ completed_count = 0
    /\ results = EmptyBag
    /\ runs = 0
    /\ storeAtStart = EmptyBag
    /\ readOk = FALSE
    /\ saveOk = FALSE
    /\ exc = "none"
    /\ prev = NoPrev
    /\ repeat = FALSE
    /\ prevClean = FALSE
    /\ remote = <<>>
    /\ other = NoOther

\* app.py:940, 957: the operator types a period and starts a collection
StartRun(period) ==
    /\ pc \in {"idle", "done", "error"}
    /\ runs < MaxRuns
    /\ runs' = runs + 1
    /\ TARGET_MONTH' = period
    /\ pc' = "cache"
    /\ prev' = IF pc = "idle" THEN prev
               ELSE [exists |-> TRUE, period |-> TARGET_MONTH, catalogs |-> CatalogLists,
                     clean |-> /\ pc = "done"
                               /\ Len(new_results) = Len(tasks)
                               /\ (tasks = <<>> \/ saveOk)]
    /\ cached_df' = EmptyBag
    /\ catalogs' = [i \in 1..4 |-> NoCatalog]
    /\ tasks' = <<>>
    /\ taskState' = <<>>
    /\ semaphore' = MAX_CONCURRENT_REQUESTS
    /\ new_results' = <<>>
    /\ completed_count' = 0
    /\ results' = EmptyBag
    /\ storeAtStart' = store
    /\ readOk' = FALSE
    /\ saveOk' = FALSE
    /\ exc' = "none"
    /\ repeat' = FALSE
    /\ prevClean' = FALSE
    /\ UNCHANGED <<MD_TOKEN, store>>

\* app.py:563
GetCachedData(connects) ==
    /\ pc = "cache"
    /\ cached_df' = get_cached_data(TARGET_MONTH, connects)
    /\ readOk' = get_md_connection(connects)
    /\ pc' = "gather"
    /\ UNCHANGED <<MD_TOKEN, store, TARGET_MONTH, catalogs, tasks, taskState, semaphore,
                   new_results, completed_count, results, runs, storeAtStart,
                   saveOk, exc, prev, repeat, prevClean>>

catalog_call(i, resp) ==
    IF i = 1 THEN get_companies(resp, "H")
    ELSE IF i = 2 THEN get_companies(resp, "I")
    ELSE IF i = 3 THEN get_accounts(resp, "SH021")
    ELSE get_accounts(resp, "SI021")

\* app.py:575-580: one of the four gathered calls ends; an exception of any
\* of them ends the gather and the run (app.py:655-658), and the lists of the
\* other calls are never bound (the assignment of app.py:580 does not happen)
CatalogReturn(i, resp) ==
    /\ pc = "gather"
    /\ ~catalogs[i].done
    /\ LET r == catalog_call(i, resp)
       IN  IF r.raised
           THEN /\ pc' = "error"
                /\ exc' = IF i \in {1, 2} THEN "get_companies" ELSE "get_accounts"
                /\ results' = except_return(new_results)
                /\ catalogs' = [j \in 1..4 |-> NoCatalog]
           ELSE /\ catalogs' = [catalogs EXCEPT ![i] = [done |-> TRUE, val |-> r.val]]
                /\ UNCHANGED <<pc, exc, results>>
    /\ UNCHANGED <<MD_TOKEN, store, TARGET_MONTH, cached_df, tasks, taskState, semaphore,
                   new_results, completed_count, runs, storeAtStart, readOk,
                   saveOk, prev, repeat, prevClean>>

\* Faulty variant: the driver resumes when the first of the calls has returned
gather_first_done == \E i \in 1..4 : catalogs[i].done

\* app.py:580: await asyncio.gather(f1, f2, f3, f4) resumes when all four
\* calls have returned
gather_done == \A i \in 1..4 : catalogs[i].done

\* app.py:582-618: after the gather, the work list; the run returns the cached
\* rows when it is empty
BuildTasks ==
    /\ pc = "gather"
    /\ gather_done
    /\ LET todo == work_list(catalogs, cached_df)
       IN  /\ tasks' = todo
           /\ taskState' = [i \in 1..Len(todo) |-> "pending"]
           /\ pc' = IF todo = <<>> THEN "done" ELSE "fetch"
           /\ results' = IF todo = <<>> THEN cache_hit(cached_df) ELSE results
    /\ semaphore' = MAX_CONCURRENT_REQUESTS
    /\ repeat' = (prev.exists /\ prev.period = TARGET_MONTH /\ prev.catalogs = CatalogLists)
    /\ prevClean' = prev.clean
    /\ prev' = NoPrev
    /\ UNCHANGED <<MD_TOKEN, store, TARGET_MONTH, cached_df, catalogs, new_results,
                   completed_count, runs, storeAtStart, readOk, saveOk, exc>>

\* Faulty variant: a task enters whatever the count of free slots
can_acquire_always == TRUE

\* Semaphore.acquire without waiting (app.py:529)
can_acquire == semaphore > 0

\* app.py:529: a task enters  async with semaphore
AcquireSlot(i) ==
    /\ pc = "fetch"
    /\ i \in DOMAIN tasks
    /\ taskState[i] = "pending"
    /\ can_acquire
    /\ semaphore' = semaphore - 1
    /\ taskState' = [taskState EXCEPT ![i] = "holding"]
    /\ UNCHANGED <<MD_TOKEN, store, TARGET_MONTH, pc, cached_df, catalogs, tasks,
                   new_results, completed_count, results, runs, storeAtStart,
                   readOk, saveOk, exc, prev, repeat, prevClean>>

\* app.py:530-552, 625-632: the network call of a task resolves, the slot is
\* released and the task ends with a row, None or an exception; the loop over
\* as_completed takes the tasks in the order they end, so its body for this
\* task is part of the step
FetchReturn(i, resp) ==
    /\ pc = "fetch"
    /\ i \in DOMAIN tasks
    /\ taskState[i] = "holding"
    /\ semaphore' = semaphore + 1
    /\ taskState' = [taskState EXCEPT ![i] = "done"]
    /\ LET res == fetch_statistics(resp, tasks[i].company, tasks[i].account, TARGET_MONTH)
       IN  IF res.raised
           THEN /\ pc' = "error"
                /\ exc' = "fetch_statistics"
                /\ results' = except_return(new_results)
                /\ UNCHANGED <<new_results, completed_count>>
           ELSE /\ new_results' = IF res.absent THEN new_results
                                  ELSE Append(new_results, res.val)
                /\ completed_count' = completed_count + 1
                /\ UNCHANGED <<pc, exc, results>>
    /\ UNCHANGED <<MD_TOKEN, store, TARGET_MONTH, cached_df, catalogs, tasks, runs,
                   storeAtStart, readOk, saveOk, prev, repeat, prevClean>>

\* app.py:634-653: after the last task, save the new rows and return the merge
SaveAndMerge(connects) ==
    /\ pc = "fetch"
    /\ completed_count = Len(tasks)
    /\ store' = save_to_md(new_df(new_results), connects)
    /\ saveOk' = get_md_connection(connects)
    /\ results' = merge(cached_df, new_results)
    /\ pc' = "done"
    /\ UNCHANGED <<MD_TOKEN, TARGET_MONTH, cached_df, catalogs, tasks, taskState,
                   semaphore, new_results, completed_count, runs,
                   storeAtStart, readOk, exc, prev, repeat, prevClean>>

----------------------------------------------------------------------------
(* A second session: Streamlit runs the script once per browser session, so   *)
(* another run_async_collection may be under way against the same table.  Its *)
(* steps are taken at the grain of its reads and writes of the table: the     *)
(* gather is one step and its tasks end in submission order.                  *)

\* app.py:940, 957 in the other session
OtherStart(period) ==
    /\ other.pc = "idle"
    /\ other' = [other EXCEPT !.pc = "cache", !.target_month = period]
    /\ UNCHANGED store

\* app.py:563 in the other session
OtherGetCachedData(connects) ==
    /\ other.pc = "cache"
    /\ other' = [other EXCEPT !.cached_df = get_cached_data(other.target_month, connects),
                              !.readOk = get_md_connection(connects),
                              !.pc = "gather"]
    /\ UNCHANGED store

\* app.py:575-618 in the other session: the four catalog calls and the work list
OtherGather(resps) ==
    /\ other.pc = "gather"
    /\ LET cats == [i \in 1..4 |-> catalog_call(i, resps[i])]
       IN  IF \E i \in 1..4 : cats[i].raised
           THEN other' = [other EXCEPT !.pc = "error", !.results = except_return(<<>>)]
           ELSE LET todo == work_list(cats, other.cached_df)
                IN  other' = [other EXCEPT
                                 !.tasks = todo,
                                 !.pc = IF todo = <<>> THEN "done" ELSE "fetch",
                                 !.results = IF todo = <<>> THEN cache_hit(other.cached_df)
                                             ELSE other.results]
    /\ UNCHANGED store

\* app.py:530-552, 625-632 in the other session: its next task ends
OtherFetchReturn(resp) ==
    /\ other.pc = "fetch"
    /\ other.next <= Len(other.tasks)
    /\ LET t == other.tasks[other.next]
           res == fetch_statistics(resp, t.company, t.account, other.target_month)
       IN  IF res.raised
           THEN other' = [other EXCEPT !.pc = "error",
                                       !.results = except_return(other.new_results)]
           ELSE other' = [other EXCEPT
                             !.new_results = IF res.absent THEN other.new_results
                                             ELSE Append(other.new_results, res.val),
                             !.next = other.next + 1]
    /\ UNCHANGED store

\* app.py:634-653 in the other session
OtherSaveAndMerge(connects) ==
    /\ other.pc = "fetch"
    /\ other.next > Len(other.tasks)
    /\ store' = save_to_md(new_df(other.new_results), connects)
    /\ other' = [other EXCEPT !.saveOk = get_md_connection(connects),
                              !.results = merge(other.cached_df, other.new_results),
                              !.pc = "done"]

----------------------------------------------------------------------------
(* The value of one fetched item, from the response to the table *)

\* app.py:540
ExtractValue ==
    /\ vpc = "item"
    /\ vRaw' = raw_value(vItem)
    /\ vpc' = "raw"
    /\ UNCHANGED <<vItem, vStored>>
    /\ UNCHANGED runVars

\* app.py:639-640
NormalizeValue ==
    /\ vpc = "raw"
    /\ vStored' = to_numeric(replace_comma(astype_str(vRaw)))
    /\ vpc' = "stored"
    /\ UNCHANGED <<vItem, vRaw>>
    /\ UNCHANGED runVars

----------------------------------------------------------------------------
(* Specifications *)

Init ==
    /\ InitRun
    /\ vpc = "off"
    /\ vItem = StatItem({}, JNull, JNull, JNull, "")
    /\ vRaw = JNull
    /\ vStored = JNull

Next ==
    \/ \E period \in Periods : StartRun(period) /\ UNCHANGED <<valueVars, sessionVars>>
    \/ \E connects \in BOOLEAN : GetCachedData(connects) /\ UNCHANGED <<valueVars, sessionVars>>
    \/ \E i \in 1..4 : \E resp \in CatalogResponses(i) :
            CatalogReturn(i, resp) /\ UNCHANGED <<valueVars, sessionVars>>
    \/ BuildTasks /\ UNCHANGED <<valueVars, sessionVars>>
    \/ \E i \in DOMAIN tasks : AcquireSlot(i) /\ UNCHANGED <<valueVars, sessionVars>>
    \/ \E i \in DOMAIN tasks : \E resp \in StatResponses :
            FetchReturn(i, resp) /\ UNCHANGED <<valueVars, sessionVars>>
    \/ \E connects \in BOOLEAN : SaveAndMerge(connects) /\ UNCHANGED <<valueVars, sessionVars>>

\* The collection runs
Spec == Init /\ [][Next]_vars

InitValue ==
    /\ InitRun
    /\ vpc = "item"
    /\ vItem \in ValueItems
    /\ vRaw = JNull
    /\ vStored = JNull

NextValue == (ExtractValue \/ NormalizeValue) /\ UNCHANGED sessionVars

\* The value pipeline over every item
SpecValue == InitValue /\ [][NextValue]_vars

\* The remote's answers when the answer to each task's request is fixed before
\* the tasks run: a catalog is one of its lists or, after a failed exchange,
\* empty; a statistic is a failed exchange, {"result": null}, a number or a text
OrderCatalogResponses(i) ==
    {Http(TRUE, 0, FALSE, None)} \cup
    HttpOk(ListBodies(IF i = 1 THEN LifeCompanyLists
                      ELSE IF i = 2 THEN NonLifeCompanyLists
                      ELSE IF i = 3 THEN LifeAccountLists
                      ELSE NonLifeAccountLists))
OrderStatResponses ==
    {Http(TRUE, 0, FALSE, None)} \cup HttpOk({Body("resultnull", <<>>)})
        \cup HttpOk(ListBodies({<<ItemNumber>>, <<ItemText>>}))

NextOrder ==
    \/ \E period \in Periods :
            StartRun(period) /\ remote' = <<>> /\ UNCHANGED <<valueVars, other>>
    \/ \E connects \in BOOLEAN : GetCachedData(connects) /\ UNCHANGED <<valueVars, sessionVars>>
    \/ \E i \in 1..4 : \E resp \in OrderCatalogResponses(i) :
            CatalogReturn(i, resp) /\ UNCHANGED <<valueVars, sessionVars>>
    \/ /\ BuildTasks
       /\ remote' \in [DOMAIN tasks' -> OrderStatResponses]
       /\ UNCHANGED <<valueVars, other>>
    \/ \E i \in DOMAIN tasks : AcquireSlot(i) /\ UNCHANGED <<valueVars, sessionVars>>
    \/ \E i \in DOMAIN tasks : FetchReturn(i, remote[i]) /\ UNCHANGED <<valueVars, sessionVars>>
    \/ \E connects \in BOOLEAN : SaveAndMerge(connects) /\ UNCHANGED <<valueVars, sessionVars>>

\* The collection runs with the remote's answer to each task fixed when the
\* work list is built: the behaviours differ in the order the tasks end
SpecOrder == Init /\ [][NextOrder]_vars

\* The remote's answers while two sessions collect: each catalog is its list
\* or, after a failed exchange, empty; a statistic is a row or absent
TwoPeriods == {P}
TwoCatalogResponses(i) ==
    {Http(TRUE, 0, FALSE, None)} \cup
    HttpOk(ListBodies(IF i = 1 THEN {<<CoItem(<<"A">>, "Alpha")>>}
                      ELSE IF i = 2 THEN {<<CoItem(<<"B">>, "Beta")>>}
                      ELSE IF i = 3 THEN {<<AccItem(<<"X">>, "capital")>>}
                      ELSE {<<AccItem(<<" ", "Y">>, "required")>>}))
TwoStatResponses == {Http(TRUE, 0, FALSE, None)} \cup HttpOk(ListBodies({<<ItemNumber>>}))

\* The variables of this session but the table and the token
ownVars == <<TARGET_MONTH, pc, cached_df, catalogs, tasks, taskState, semaphore,
             new_results, completed_count, results, runs, storeAtStart, readOk, saveOk,
             exc, prev, repeat, prevClean>>

NextTwo ==
    \/ \E period \in TwoPeriods : StartRun(period) /\ UNCHANGED <<valueVars, sessionVars>>
    \/ \E connects \in BOOLEAN : GetCachedData(connects) /\ UNCHANGED <<valueVars, sessionVars>>
    \/ \E i \in 1..4 : \E resp \in TwoCatalogResponses(i) :
            CatalogReturn(i, resp) /\ UNCHANGED <<valueVars, sessionVars>>
    \/ BuildTasks /\ UNCHANGED <<valueVars, sessionVars>>
    \/ \E i \in DOMAIN tasks : AcquireSlot(i) /\ UNCHANGED <<valueVars, sessionVars>>
    \/ \E i \in DOMAIN tasks : \E resp \in TwoStatResponses :
            FetchReturn(i, resp) /\ UNCHANGED <<valueVars, sessionVars>>
    \/ \E connects \in BOOLEAN : SaveAndMerge(connects) /\ UNCHANGED <<valueVars, sessionVars>>
    \/ \E period \in TwoPeriods :
            OtherStart(period) /\ UNCHANGED <<MD_TOKEN, ownVars, valueVars, remote>>
    \/ \E connects \in BOOLEAN :
            OtherGetCachedData(connects) /\ UNCHANGED <<MD_TOKEN, ownVars, valueVars, remote>>
    \/ \E r1 \in TwoCatalogResponses(1) : \E r2 \in TwoCatalogResponses(2) :
       \E r3 \in TwoCatalogResponses(3) : \E r4 \in TwoCatalogResponses(4) :
            OtherGather(<<r1, r2, r3, r4>>) /\ UNCHANGED <<MD_TOKEN, ownVars, valueVars, remote>>
    \/ \E resp \in TwoStatResponses :
            OtherFetchReturn(resp) /\ UNCHANGED <<MD_TOKEN, ownVars, valueVars, remote>>
    \/ \E connects \in BOOLEAN :
            OtherSaveAndMerge(connects) /\ UNCHANGED <<MD_TOKEN, ownVars, valueVars, remote>>

\* Two sessions collecting against the same table
SpecTwo == Init /\ [][NextTwo]_vars

----------------------------------------------------------------------------
(* Properties *)

\* The work list of the current run has been computed
Built == pc \in {"fetch", "done"} \/ (pc = "error" /\ exc = "fetch_statistics")

\* The trimmed (company code, account code) key of a row and of a catalog pair
RowKey(r) == <<strip(r.financeCd), strip(r.accountCd)>>
PairKey(c, a) == <<strip(c.financeCd), strip(a.accountCd)>>
CachedKeys == {RowKey(r) : r \in DOMAIN cached_df}

Range(s) == {s[i] : i \in DOMAIN s}
CatalogCompanies == Range(catalogs[1].val) \cup Range(catalogs[2].val)
CatalogAccounts == Range(catalogs[3].val) \cup Range(catalogs[4].val)

Task(c, a) == [company |-> c, account |-> a]
TasksOf(c, a) == {i \in DOMAIN tasks : tasks[i] = Task(c, a)}

\* How often the pair occurs in (life companies x life accounts) and in
\* (non-life companies x non-life accounts), counted by catalog entries
Occurrences(c, a) ==
    Cardinality({ij \in (DOMAIN catalogs[1].val) \X (DOMAIN catalogs[3].val) :
                    catalogs[1].val[ij[1]] = c /\ catalogs[3].val[ij[2]] = a})
    + Cardinality({ij \in (DOMAIN catalogs[2].val) \X (DOMAIN catalogs[4].val) :
                    catalogs[2].val[ij[1]] = c /\ catalogs[4].val[ij[2]] = a})

\* The rows of the table that the current run added
Appended == store (-) storeAtStart

\* The value column as a number: digits after the separators are removed, else null
IsNumberText(s) == s # <<>> /\ \A i \in 1..Len(s) : s[i] \in Range(DigitChars)
NumberOf(v) ==
    LET text == replace_comma(astype_str(v))
    IN  IF IsNumberText(text) THEN JNum(ParseDigits(text)) ELSE JNull

\* A fetched row as the table holds it: codes and period trimmed, value a number
Stored(row) ==
    [sector |-> row.sector, financeCd |-> strip(row.financeCd), financeNm |-> row.financeNm,
     accountCd |-> strip(row.accountCd), accountNm |-> row.accountNm,
     baseMm |-> strip(row.baseMm), unit |-> row.unit, value |-> NumberOf(row.value)]

\* A row with its value as a number, codes as they are
Numeric(row) == [row EXCEPT !.value = NumberOf(row.value)]

RECURSIVE BagOf(_, _, _)
\* The bag of F(x) over the elements x of the bag B, S the part of its domain left
BagOf(F(_), B, S) ==
    IF S = {} THEN EmptyBag
    ELSE LET x == CHOOSE y \in S : TRUE
         IN  [r \in {F(x)} |-> B[x]] (+) BagOf(F, B, S \ {x})

StoredBag(rows) == BagOf(Stored, SeqToBag(rows), Range(rows))
NumericBag(B) == BagOf(Numeric, B, DOMAIN B)

\* C1: in every reachable state the number of fetch tasks inside the network
\* call (holding an admission slot) is at most the configured cap.
C1_HoldersAtMostCap == Cardinality(Holders) <= MAX_CONCURRENT_REQUESTS

\* The cap is reached while another task waits for a slot
C1_Witness ==
    /\ pc = "fetch"
    /\ Cardinality(Holders) = MAX_CONCURRENT_REQUESTS
    /\ \E i \in DOMAIN tasks : taskState[i] = "pending"

C3_CachedPairNotFetched ==
    Built => \A c \in CatalogCompanies : \A a \in CatalogAccounts :
                 PairKey(c, a) \in CachedKeys => TasksOf(c, a) = {}

\* A pair with an untrimmed code is matched by a cached row whose value is null
C3_Witness ==
    /\ Built
    /\ \E c \in CatalogCompanies : \E a \in CatalogAccounts : \E r \in DOMAIN cached_df :
           /\ RowKey(r) = PairKey(c, a)
           /\ r.value = JNull
           /\ c.financeCd # strip(c.financeCd)
           /\ TasksOf(c, a) = {}

\* C4: the work list holds one task for each entry pair of (life companies x
\* life accounts) and of (non-life companies x non-life accounts) whose trimmed
\* key is absent from the cached rows, and no other task.
C4_WorkListIsMissingPairs ==
    Built =>
        /\ \A c \in CatalogCompanies : \A a \in CatalogAccounts :
               Cardinality(TasksOf(c, a)) =
                   IF PairKey(c, a) \in CachedKeys THEN 0 ELSE Occurrences(c, a)
        /\ \A i \in DOMAIN tasks :
               /\ tasks[i].company \in CatalogCompanies
               /\ tasks[i].account \in CatalogAccounts

\* One life company, one life account, no non-life catalog, empty cache:
\* the work list is the single pair
C4_Witness ==
    /\ Built
    /\ Len(catalogs[1].val) = 1 /\ Len(catalogs[3].val) = 1
    /\ catalogs[2].val = <<>> /\ catalogs[4].val = <<>>
    /\ cached_df = EmptyBag
    /\ tasks = <<Task(catalogs[1].val[1], catalogs[3].val[1])>>

\* C5: a run whose work list is empty returns the cached rows, issues no
\* statistic fetch and leaves the table as it was.
C5_EmptyWorkListReturnsCache ==
    (pc = "done" /\ tasks = <<>>) =>
        /\ results = cached_df
        /\ store = storeAtStart
        /\ completed_count = 0
        /\ new_results = <<>>
        /\ semaphore = MAX_CONCURRENT_REQUESTS

\* A cache hit: every catalog pair is cached and the cached rows come back
C5_Witness ==
    /\ pc = "done" /\ tasks = <<>>
    /\ cached_df # EmptyBag
    /\ results = cached_df
    /\ CatalogCompanies # {} /\ CatalogAccounts # {}

\* C6: a run that completes returns the cached rows and the new rows, each
\* once: |cached| + |new| rows (rows compared with the value as a number).
C6_ResultIsCachedPlusNew ==
    pc = "done" =>
        /\ BagCardinality(results) = BagCardinality(cached_df) + Len(new_results)
        /\ NumericBag(results) = NumericBag(cached_df) (+) NumericBag(SeqToBag(new_results))

\* Cached rows and new rows are merged
C6_Witness ==
    /\ pc = "done"
    /\ cached_df # EmptyBag
    /\ new_results # <<>>
    /\ BagCardinality(results) >= 2

\* C7 as stated: the rows a run appends are the non-absent results of its tasks.
C7_AppendsEveryFetchedRow == pc = "done" => Appended = StoredBag(new_results)

\* C7 amended: the rows a run appends are the non-absent results of its tasks
\* when save_to_md gets a connection, and none otherwise; no row is removed,
\* every appended row is the row of a task and no appended key was cached.
C7_AppendsFetchedRowsWhenConnected ==
    pc = "done" =>
        /\ Appended = IF saveOk THEN StoredBag(new_results) ELSE EmptyBag
        /\ store = storeAtStart (+) Appended
        /\ Len(new_results) <= completed_count
        /\ \A r \in DOMAIN Appended :
               /\ RowKey(r) \notin CachedKeys
               /\ \E i \in DOMAIN tasks : RowKey(r) = PairKey(tasks[i].company, tasks[i].account)

\* A run with an absent result appends the rows of its other tasks
C7_Witness ==
    /\ pc = "done" /\ saveOk
    /\ cached_df # EmptyBag
    /\ new_results # <<>>
    /\ Len(new_results) < Len(tasks)
    /\ Appended = StoredBag(new_results)

\* The work list holds every entry pair of (life companies x life accounts)
\* and of (non-life companies x non-life accounts)
FullCrossProduct ==
    /\ Len(tasks) = Len(catalogs[1].val) * Len(catalogs[3].val)
                     + Len(catalogs[2].val) * Len(catalogs[4].val)
    /\ \A c \in CatalogCompanies : \A a \in CatalogAccounts :
           Cardinality(TasksOf(c, a)) = Occurrences(c, a)

\* C11: when the store is unavailable (no token, or the connection fails),
\* get_cached_data returns no row and save_to_md writes nothing, neither ends
\* the run with an exception, the work list is the full cross product of the
\* catalogs and the completed run returns the rows it fetched.
C11_UnavailableStoreIsColdStart ==
    /\ exc \notin {"get_md_connection", "get_cached_data", "save_to_md"}
    /\ (pc \notin {"idle", "cache"} /\ ~readOk) => cached_df = EmptyBag
    /\ (Built /\ ~readOk) => FullCrossProduct
    /\ (pc = "done" /\ ~saveOk) => store = storeAtStart
    /\ (pc = "done" /\ ~readOk) => results = SeqToBag(new_results)

\* The table holds a row of this period for a catalog pair, the connection
\* fails at the read and at the save: the pair is fetched again, its row is
\* returned and the table stays as it was
C11_Witness ==
    /\ pc = "done" /\ MD_TOKEN /\ ~readOk /\ ~saveOk
    /\ new_results # <<>>
    /\ \E r \in DOMAIN storeAtStart : \E i \in DOMAIN tasks :
           /\ r.baseMm = TARGET_MONTH
           /\ RowKey(r) = PairKey(tasks[i].company, tasks[i].account)
    /\ FullCrossProduct
    /\ results = SeqToBag(new_results)
    /\ store = storeAtStart

\* C12: a run ended by an exception is in the error state, returns no row and
\* has appended nothing to the table; the error state is entered in no other way.
C12_FailedRunKeepsNothing ==
    /\ exc # "none" => (pc = "error" /\ results = EmptyBag /\ store = storeAtStart)
    /\ pc = "error" => exc # "none"

\* A fetch raises after another task of the run has delivered a row, with a
\* usable store: the row is neither returned nor appended
C12_Witness ==
    /\ pc = "error" /\ exc = "fetch_statistics"
    /\ MD_TOKEN /\ readOk
    /\ new_results # <<>>
    /\ results = EmptyBag
    /\ store = storeAtStart

\* The number of rows of the table with the key and the period
KeyCount(table, key, period) ==
    BagCardinality([r \in {t \in DOMAIN table : RowKey(t) = key /\ t.baseMm = period}
                       |-> table[r]])

\* C13: with two runs for the same period against the same table, when both
\* have fetched a row for the same pair and both have saved, the table holds
\* (at least) two rows of that pair and period: nothing at the append looks
\* for a row already there.
C13_BothRunsAppendThePair ==
    (/\ pc = "done" /\ saveOk
     /\ other.pc = "done" /\ other.saveOk
     /\ TARGET_MONTH = other.target_month)
    => \A i \in DOMAIN new_results : \A j \in DOMAIN other.new_results :
           RowKey(new_results[i]) = RowKey(other.new_results[j])
               => KeyCount(store, RowKey(new_results[i]), strip(TARGET_MONTH)) >= 2

\* Both runs read the table while it is empty, both have a task for the same
\* pair, both append its row: two rows with one (company, account, period)
C13_Witness ==
    /\ runs = 1 /\ pc = "done" /\ other.pc = "done"
    /\ TARGET_MONTH = other.target_month
    /\ readOk /\ other.readOk
    /\ cached_df = EmptyBag /\ other.cached_df = EmptyBag
    /\ saveOk /\ other.saveOk
    /\ \E i \in DOMAIN tasks : \E j \in DOMAIN other.tasks :
           /\ tasks[i] = other.tasks[j]
           /\ \E m \in DOMAIN new_results : \E n \in DOMAIN other.new_results :
                  /\ RowKey(new_results[m]) = PairKey(tasks[i].company, tasks[i].account)
                  /\ RowKey(other.new_results[n]) = RowKey(new_results[m])
                  /\ KeyCount(store, RowKey(new_results[m]), TARGET_MONTH) = 2

\* C14: no step removes or changes a row of the table, and the only step that
\* adds rows is the save at the end of the fetch loop, which adds the rows the
\* run fetched.
C14_TableIsAppendOnly ==
    [][/\ store \sqsubseteq store'
       /\ store' # store =>
              /\ pc = "fetch" /\ pc' = "done"
              /\ completed_count = Len(tasks)
              /\ store' = store (+) StoredBag(new_results)]_vars

\* A later run has added rows to a table that held rows, and those are all
\* still there
C14_Witness ==
    /\ pc = "done"
    /\ storeAtStart # EmptyBag
    /\ store # storeAtStart
    /\ storeAtStart \sqsubseteq store
    /\ \A r \in DOMAIN storeAtStart : store[r] >= storeAtStart[r]

\* C15: a run whose work list was built ends with every task completed: all
\* admission slots are free and the completion count is the number of tasks.
C15_RunEndsWithEveryTaskCompleted ==
    (Built /\ pc \in {"done", "error"}) =>
        /\ semaphore = MAX_CONCURRENT_REQUESTS
        /\ completed_count = Len(tasks)
        /\ \A i \in DOMAIN tasks : taskState[i] = "done"

\* What each task's fixed answer makes of it, in submission order
FixedResult(i) ==
    fetch_statistics(remote[i], tasks[i].company, tasks[i].account, TARGET_MONTH)
IsRow(res) == ~res.raised /\ ~res.absent
ResultRow(res) == res.val
SomeFixedRaises == \E i \in DOMAIN tasks : FixedResult(i).raised
RowsInSubmissionOrder ==
    LET all == [i \in DOMAIN tasks |-> FixedResult(i)]
        got == SelectSeq(all, IsRow)
    IN  [i \in DOMAIN got |-> ResultRow(got[i])]

\* The rows returned for the cached rows and the rows of the tasks: the new
\* rows alone as fetched, or the cached rows and the new rows as numbers
RowsReturned(cached, rows) ==
    IF rows = <<>> THEN cached
    ELSE IF cached = EmptyBag THEN SeqToBag(rows)
    ELSE cached (+) NumericBag(SeqToBag(rows))

\* C16: with the cached rows, the catalogs and the answer to each task fixed,
\* the rows a run returns and the rows it appends are those of the tasks
\* taken in submission order, in whatever order the tasks end; a run with a
\* task whose answer raises returns and appends nothing in every order.
C16_RowsDoNotDependOnCompletionOrder ==
    /\ pc = "done" =>
           /\ ~SomeFixedRaises
           /\ results = RowsReturned(cached_df, RowsInSubmissionOrder)
           /\ Appended = IF saveOk THEN StoredBag(RowsInSubmissionOrder) ELSE EmptyBag
    /\ (pc = "error" /\ exc = "fetch_statistics") =>
           /\ SomeFixedRaises
           /\ results = EmptyBag
           /\ Appended = EmptyBag

\* The tasks ended in another order than they were submitted, and the rows
\* returned and appended are those of the submission order
C16_Witness ==
    /\ pc = "done" /\ saveOk
    /\ Len(new_results) >= 2
    /\ new_results # RowsInSubmissionOrder
    /\ results = RowsReturned(cached_df, RowsInSubmissionOrder)
    /\ Appended = StoredBag(RowsInSubmissionOrder)

\* C17: until all four catalog calls have returned there is no work list, no
\* task and no slot taken; and while the gather waits, every call that has not
\* returned can return, whatever the others have done.
C17_WorkListAfterAllFourCatalogs ==
    /\ pc \in {"cache", "gather"} =>
           /\ tasks = <<>> /\ taskState = <<>>
           /\ semaphore = MAX_CONCURRENT_REQUESTS
           /\ completed_count = 0 /\ new_results = <<>>
    /\ Built => \A i \in 1..4 : catalogs[i].done
    /\ pc = "gather" =>
           \A i \in 1..4 : ~catalogs[i].done =>
               ENABLED (\E resp \in CatalogResponses(i) :
                           CatalogReturn(i, resp) /\ UNCHANGED <<valueVars, sessionVars>>)

\* The two non-life calls have returned their lists before the two life calls:
\* the gather still waits and no non-life task exists
C17_Witness ==
    /\ pc = "gather"
    /\ catalogs[2].done /\ catalogs[2].val # <<>>
    /\ catalogs[4].done /\ catalogs[4].val # <<>>
    /\ ~catalogs[1].done /\ ~catalogs[3].done
    /\ tasks = <<>>
    /\ ~ENABLED (BuildTasks /\ UNCHANGED <<valueVars, sessionVars>>)

\* C18: every row a run appends carries the period the run was asked for;
\* a catalog pair without a task has a row of that period in the table the
\* run started from; every returned row carries that period.
C18_PeriodScopesTheCache ==
    /\ pc = "done" => \A r \in DOMAIN Appended : r.baseMm = TARGET_MONTH
    /\ Built => \A c \in CatalogCompanies : \A a \in CatalogAccounts :
                    (Occurrences(c, a) > 0 /\ TasksOf(c, a) = {})
                        => \E r \in DOMAIN storeAtStart :
                               r.baseMm = TARGET_MONTH /\ RowKey(r) = PairKey(c, a)
    /\ pc = "done" => \A r \in DOMAIN results : r.baseMm = TARGET_MONTH

\* C19: over sequential runs from an empty table, the table holds one row at
\* most for each (trimmed company code, trimmed account code, period).
C19_OneRowPerKeyAndPeriod ==
    \A r \in DOMAIN store : KeyCount(store, RowKey(r), r.baseMm) = 1

\* C8: no exception of get_companies, get_accounts or fetch_statistics reaches
\* run_async_collection, whatever the remote answers.
C8_NoExceptionReachesRun == exc \notin {"get_companies", "get_accounts", "fetch_statistics"}

\* The first present field among a, won, column_value; 0 when none is present
FirstPresent(item) ==
    IF "a" \in item.keys THEN item.a
    ELSE IF "won" \in item.keys THEN item.won
    ELSE IF "column_value" \in item.keys THEN item.column_value
    ELSE JNum(0)

\* C9: the extracted value is the value of the first present field of a, won,
\* column_value, falsy values included, and 0 when none is present.
C9_FirstPresentFieldWins == vpc \in {"raw", "stored"} => vRaw = FirstPresent(vItem)

\* C10: for an item with only column_value, a text, the stored value is the
\* number the text spells once the separators are removed, and null when that
\* is no number.
C10_StoredValueOfColumnValue ==
    (vpc = "stored" /\ vItem.keys = {"column_value"} /\ vItem.column_value.k = "str")
        => vStored = LET text == replace_comma(vItem.column_value.s)
                     IN  IF IsNumberText(text) THEN JNum(ParseDigits(text)) ELSE JNull

====
